---- MODULE Spec2Model ----
(***************************************************************************)
(* A model of celc.py, the reference compiler of the Code Execution        *)
(* Language: lexer, recursive-descent parser, semantic pass and NASM       *)
(* emitter, as driven by main().  Source text is a sequence of one-        *)
(* character strings; a lexeme is the sub-sequence the pattern matched.    *)
(***************************************************************************)
EXTENDS Integers, Sequences, FiniteSets, TLC

VARIABLES
    src,         \* main: src_code, the text read from the input file
    pc,          \* main: the stage the compilation is in
    pos,         \* lex: offset at which finditer looks for the next match
    line,        \* lex: line
    line_start,  \* lex: line_start
    toks,        \* lex: the tokens yielded so far
    err,         \* the exception that ended the compilation, or NoErr
    pi,          \* Parser: 1 + self.i, the index of the next token
    blocks,      \* Parser.parse: blocks
    gate,        \* Parser.block: gate
    stmts,       \* Parser.block: stmts
    ast,         \* main: ast, the blocks of the Program the parser returned
    symbols,     \* semantic: the set symbols
    sk,          \* semantic: how many statements the two loops have passed
    syms,        \* main: symbols, the sorted list semantic returned
    out,         \* emit: the lines written to the output file so far
    ek,          \* emit: how many gates and statements the loops have passed
    lbl,         \* emit: lbl
    code,        \* the instruction region being executed
    ip,          \* index in code of the next instruction, 0 once control left
    cells,       \* the storage cell of each symbol
    regs,        \* rax, rcx, rdx
    zf,          \* the zero flag
    mark         \* what the run has passed: the statement being executed, the
                 \* cells at its entry, the last COMPARE and the last JUMP_IF

lexVars == <<pos, line, line_start, toks>>
parseVars == <<pi, blocks, gate, stmts>>
semVars == <<ast, symbols, sk, syms>>
emitVars == <<out, ek, lbl>>
compVars == <<parseVars, semVars, emitVars>>
machVars == <<code, ip, cells, regs, zf, mark>>
vars == <<src, pc, err, lexVars, compVars, machVars>>

NoErr == [kind |-> "none"]

-----------------------------------------------------------------------------
(* 1. Lexer *)

Digits == {"0", "1", "2", "3", "4", "5", "6", "7", "8", "9"}

UpperSeq == <<"A", "B", "C", "D", "E", "F", "G", "H", "I", "J", "K", "L", "M",
              "N", "O", "P", "Q", "R", "S", "T", "U", "V", "W", "X", "Y", "Z">>

LowerSeq == <<"a", "b", "c", "d", "e", "f", "g", "h", "i", "j", "k", "l", "m",
              "n", "o", "p", "q", "r", "s", "t", "u", "v", "w", "x", "y", "z">>

Range(s) == {s[i] : i \in DOMAIN s}

IdentStart == Range(UpperSeq) \cup Range(LowerSeq) \cup {"_"}

IdentChar == IdentStart \cup Digits

NewlineChars == {"\n"}

SkipChars == {"\t", "\r", " "}

\* The alternative of TOKEN_REGEX that matches at a character: the first
\* pattern of TOKEN_SPEC, in order, whose first character class holds it.
MatchType(c) ==
    IF c \in Digits THEN "NUMBER"
    ELSE IF c \in IdentStart THEN "IDENT"
    ELSE IF c = "{" THEN "LBRACE"
    ELSE IF c = "}" THEN "RBRACE"
    ELSE IF c = "[" THEN "LBRACKET"
    ELSE IF c = "]" THEN "RBRACKET"
    ELSE IF c = ":" THEN "COLON"
    ELSE IF c = ";" THEN "SEMI"
    ELSE IF c = "," THEN "COMMA"
    ELSE IF c \in NewlineChars THEN "NEWLINE"
    ELSE IF c \in SkipChars THEN "SKIP"
    ELSE "MISMATCH"

\* The characters a greedy repetition of the pattern goes on consuming.
ContinueSet(typ) ==
    IF typ = "NUMBER" THEN Digits
    ELSE IF typ = "IDENT" THEN IdentChar
    ELSE IF typ = "NEWLINE" THEN NewlineChars
    ELSE IF typ = "SKIP" THEN SkipChars
    ELSE {}

\* mo.end() of the match that starts at offset p (0-based, as in Python):
\* the offset after the longest run of the pattern's characters.
RECURSIVE RunEnd(_, _, _)
RunEnd(s, e, S) ==
    IF e < Len(s) /\ s[e + 1] \in S THEN RunEnd(s, e + 1, S) ELSE e

MatchEnd(s, p) == RunEnd(s, p + 1, ContinueSet(MatchType(s[p + 1])))

\* mo.group(): the matched text
MatchVal(s, p) == SubSeq(s, p + 1, MatchEnd(s, p))

\* a lexer that takes a run of line breaks for one line
CountNewlinesOnce(v) == 1

\* val.count("\n")
CountNewlines(v) == Cardinality({i \in DOMAIN v : v[i] = "\n"})

\* col = mo.start() - line_start + 1
Column(start, ls) == start - ls + 1

Token(typ, val, ln, col) == [type |-> typ, value |-> val, line |-> ln, col |-> col]

AtMatch(typs) ==
    /\ pc = "lex"
    /\ pos < Len(src)
    /\ MatchType(src[pos + 1]) \in typs

LexNewline ==
    /\ AtMatch({"NEWLINE"})
    /\ line' = line + CountNewlines(MatchVal(src, pos))
    /\ line_start' = MatchEnd(src, pos)
    /\ pos' = MatchEnd(src, pos)
    /\ UNCHANGED <<src, pc, toks, err, compVars, machVars>>

LexSkip ==
    /\ AtMatch({"SKIP"})
    /\ pos' = MatchEnd(src, pos)
    /\ UNCHANGED <<src, pc, line, line_start, toks, err, compVars, machVars>>

LexMismatch ==
    /\ AtMatch({"MISMATCH"})
    /\ err' = [kind |-> "SyntaxError", char |-> MatchVal(src, pos),
               line |-> line, col |-> Column(pos, line_start)]
    /\ pc' = "error"
    /\ UNCHANGED <<src, lexVars, compVars, machVars>>

LexToken ==
    /\ AtMatch({"NUMBER", "IDENT", "LBRACE", "RBRACE", "LBRACKET", "RBRACKET",
                "COLON", "SEMI", "COMMA"})
    /\ toks' = Append(toks, Token(MatchType(src[pos + 1]), MatchVal(src, pos),
                                  line, Column(pos, line_start)))
    /\ pos' = MatchEnd(src, pos)
    /\ UNCHANGED <<src, pc, line, line_start, err, compVars, machVars>>

\* finditer is exhausted: list(lex(src_code)) returns
LexEnd ==
    /\ pc = "lex"
    /\ pos = Len(src)
    /\ pc' = "parse"
    /\ UNCHANGED <<src, err, lexVars, compVars, machVars>>

-----------------------------------------------------------------------------
(* 2. Parser *)

EofToken == Token("EOF", <<>>, -1, -1)

\* Parser.peek, with i the 1-based index of the next token (self.i + 1)
Peek(ts, i) == IF i <= Len(ts) THEN ts[i] ELSE EofToken

\* What a parsing method hands back: the value and the index after it, or the
\* ParseError it raised.
Parsed(i, v) == [ok |-> TRUE, i |-> i, v |-> v, err |-> NoErr]

Raised(e) == [ok |-> FALSE, i |-> 0, v |-> <<>>, err |-> e]

\* Parser.expect (accept, and the ParseError when it returns None): types is
\* the tuple of accepted types, named in the message in that order together
\* with the line and column of the token found instead.
Expect(ts, i, types) ==
    IF Peek(ts, i).type \in Range(types)
    THEN Parsed(i + 1, Peek(ts, i))
    ELSE Raised([kind |-> "ParseError", expected |-> types,
                 line |-> Peek(ts, i).line, col |-> Peek(ts, i).col])

UpperChar(c) ==
    IF c \in Range(LowerSeq)
    THEN UpperSeq[CHOOSE j \in DOMAIN LowerSeq : LowerSeq[j] = c]
    ELSE c

\* str.upper() on an identifier
Upper(s) == [k \in DOMAIN s |-> UpperChar(s[k])]

DigitSeq == <<"0", "1", "2", "3", "4", "5", "6", "7", "8", "9">>

DigitVal(c) == (CHOOSE j \in DOMAIN DigitSeq : DigitSeq[j] = c) - 1

\* int(tok.value) on a NUMBER lexeme
RECURSIVE IntOf(_)
IntOf(s) ==
    IF s = <<>> THEN 0
    ELSE 10 * IntOf(SubSeq(s, 1, Len(s) - 1)) + DigitVal(s[Len(s)])

\* An argument of a statement: an int or a str
IntArg(n) == [kind |-> "int", n |-> n, s |-> <<>>]

StrArg(s) == [kind |-> "str", n |-> 0, s |-> s]

\* Parser.arg_list
RECURSIVE ArgList(_, _, _)
ArgList(ts, i, args) ==
    LET tok == Expect(ts, i, <<"IDENT", "NUMBER">>)
    IN  IF ~tok.ok THEN tok
        ELSE LET more == Append(args, IF tok.v.type = "NUMBER"
                                      THEN IntArg(IntOf(tok.v.value))
                                      ELSE StrArg(tok.v.value))
             IN  IF Peek(ts, tok.i).type = "COMMA"
                 THEN ArgList(ts, tok.i + 1, more)
                 ELSE Parsed(tok.i, more)

\* Parser.statement
ParseStatement(ts, i) ==
    LET dest == Expect(ts, i, <<"IDENT">>)
    IN  IF ~dest.ok THEN dest
        ELSE LET colon == Expect(ts, dest.i, <<"COLON">>)
             IN  IF ~colon.ok THEN colon
                 ELSE LET op == Expect(ts, colon.i, <<"IDENT">>)
                      IN  IF ~op.ok THEN op
                          ELSE LET args == ArgList(ts, op.i, <<>>)
                               IN  IF ~args.ok THEN args
                                   ELSE Parsed(args.i, [dest |-> dest.v.value,
                                                        op |-> Upper(op.v.value),
                                                        args |-> args.v])

\* statement() and the expect("SEMI") that follows it in the loop of block
StatementSemi(ts, i) ==
    LET st == ParseStatement(ts, i)
    IN  IF ~st.ok THEN st
        ELSE LET semi == Expect(ts, st.i, <<"SEMI">>)
             IN  IF ~semi.ok THEN semi ELSE Parsed(semi.i, st.v)

\* Parser.block up to its loop: '[' IDENT ']' '{'
BlockHead(ts, i) ==
    LET lb == Expect(ts, i, <<"LBRACKET">>)
    IN  IF ~lb.ok THEN lb
        ELSE LET name == Expect(ts, lb.i, <<"IDENT">>)
             IN  IF ~name.ok THEN name
                 ELSE LET rb == Expect(ts, name.i, <<"RBRACKET">>)
                      IN  IF ~rb.ok THEN rb
                          ELSE LET open == Expect(ts, rb.i, <<"LBRACE">>)
                               IN  IF ~open.ok THEN open
                                   ELSE Parsed(open.i, name.v.value)

\* parse: the loop finds a token other than EOF and calls block(), which reads
\* the gate and the opening brace
ParseBlockHead ==
    /\ pc = "parse"
    /\ Peek(toks, pi).type # "EOF"
    /\ IF BlockHead(toks, pi).ok
       THEN /\ gate' = BlockHead(toks, pi).v
            /\ stmts' = <<>>
            /\ pi' = BlockHead(toks, pi).i
            /\ pc' = "block"
            /\ UNCHANGED err
       ELSE /\ err' = BlockHead(toks, pi).err
            /\ pc' = "error"
            /\ UNCHANGED <<pi, gate, stmts>>
    /\ UNCHANGED <<src, lexVars, blocks, semVars, emitVars, machVars>>

\* block: the loop finds a token other than '}' and reads a statement and ';'
ParseStatementSemi ==
    /\ pc = "block"
    /\ Peek(toks, pi).type # "RBRACE"
    /\ IF StatementSemi(toks, pi).ok
       THEN /\ stmts' = Append(stmts, StatementSemi(toks, pi).v)
            /\ pi' = StatementSemi(toks, pi).i
            /\ UNCHANGED <<pc, err>>
       ELSE /\ err' = StatementSemi(toks, pi).err
            /\ pc' = "error"
            /\ UNCHANGED <<pi, stmts>>
    /\ UNCHANGED <<src, lexVars, blocks, gate, semVars, emitVars, machVars>>

\* block: the loop ends at '}', expect("RBRACE") takes it, and parse appends
\* the Block
ParseBlockEnd ==
    /\ pc = "block"
    /\ Peek(toks, pi).type = "RBRACE"
    /\ blocks' = Append(blocks, [gate |-> gate, statements |-> stmts])
    /\ pi' = Expect(toks, pi, <<"RBRACE">>).i
    /\ pc' = "parse"
    /\ UNCHANGED <<src, err, lexVars, gate, stmts, semVars, emitVars, machVars>>

\* parse: the loop ends at EOF and the Program is returned
ParseEnd ==
    /\ pc = "parse"
    /\ Peek(toks, pi).type = "EOF"
    /\ ast' = blocks
    /\ pc' = "semantic"
    /\ UNCHANGED <<src, err, lexVars, pi, blocks, gate, stmts, symbols, sk, syms,
                   emitVars, machVars>>

-----------------------------------------------------------------------------
(* 3. Semantic pass *)

OP_SET == <<"S", "E", "T">>
OP_ADD == <<"A", "D", "D">>
OP_SUB == <<"S", "U", "B">>
OP_MUL == <<"M", "U", "L">>
OP_DIV == <<"D", "I", "V">>
OP_NOT == <<"N", "O", "T">>
OP_DISPLAY == <<"D", "I", "S", "P", "L", "A", "Y">>
OP_COMPARE == <<"C", "O", "M", "P", "A", "R", "E">>
OP_AND == <<"A", "N", "D">>
OP_OR == <<"O", "R">>
OP_XOR == <<"X", "O", "R">>
OP_SHIFT_LEFT == <<"S", "H", "I", "F", "T", "_", "L", "E", "F", "T">>
OP_SHIFT_RIGHT == <<"S", "H", "I", "F", "T", "_", "R", "I", "G", "H", "T">>
OP_JUMP_IF == <<"J", "U", "M", "P", "_", "I", "F">>
OP_LOOP == <<"L", "O", "O", "P">>

\* a table that also lists an opcode the emitter has no case for
OPS_ARITY_WithMod ==
    (OP_SET :> 1) @@ (OP_ADD :> 1) @@ (OP_SUB :> 1) @@ (OP_MUL :> 1) @@ (OP_DIV :> 1)
        @@ (OP_NOT :> 1) @@ (OP_DISPLAY :> 1) @@ (OP_COMPARE :> 2) @@ (OP_AND :> 2)
        @@ (OP_OR :> 2) @@ (OP_XOR :> 2) @@ (OP_SHIFT_LEFT :> 2) @@ (OP_SHIFT_RIGHT :> 2)
        @@ (OP_JUMP_IF :> 2) @@ (OP_LOOP :> 3) @@ (<<"M", "O", "D">> :> 1)

OPS_ARITY ==
    (OP_SET :> 1) @@ (OP_ADD :> 1) @@ (OP_SUB :> 1) @@ (OP_MUL :> 1) @@ (OP_DIV :> 1)
        @@ (OP_NOT :> 1) @@ (OP_DISPLAY :> 1) @@ (OP_COMPARE :> 2) @@ (OP_AND :> 2)
        @@ (OP_OR :> 2) @@ (OP_XOR :> 2) @@ (OP_SHIFT_LEFT :> 2) @@ (OP_SHIFT_RIGHT :> 2)
        @@ (OP_JUMP_IF :> 2) @@ (OP_LOOP :> 3)

\* The statements in the order the nested loops over root.blocks and
\* blk.statements visit them, each with the gate of its block.
RECURSIVE Flat(_)
Flat(bs) ==
    IF bs = <<>> THEN <<>>
    ELSE [k \in 1..Len(Head(bs).statements) |->
             [gate |-> Head(bs).gate, st |-> Head(bs).statements[k]]]
         \o Flat(Tail(bs))

\* a pass that only rejects a statement with too many arguments
SemCheckAtMost(st) ==
    IF st.op \notin DOMAIN OPS_ARITY THEN "unknown"
    ELSE IF Len(st.args) > OPS_ARITY[st.op] THEN "arity"
    ELSE "ok"

\* the two checks semantic makes on a statement before it collects its names
SemCheck(st) ==
    IF st.op \notin DOMAIN OPS_ARITY THEN "unknown"
    ELSE IF Len(st.args) # OPS_ARITY[st.op] THEN "arity"
    ELSE "ok"

\* a pass that collects destinations only
SemAddDestOnly(symset, st) == symset \cup {st.dest}

\* add(st.dest), and add(a) for every str among st.args
SemAdd(symset, st) ==
    symset \cup {st.dest} \cup {a.s : a \in {x \in Range(st.args) : x.kind = "str"}}

\* the code points of the identifier characters, in ascending order
CodeOrder == DigitSeq \o UpperSeq \o <<"_">> \o LowerSeq

CodeRank(c) == CHOOSE j \in DOMAIN CodeOrder : CodeOrder[j] = c

\* a < b for two str, as Python compares them
StrLess(a, b) ==
    \E k \in 1..Len(b) :
        /\ k <= Len(a) + 1
        /\ \A j \in 1..(k - 1) : a[j] = b[j]
        /\ (k = Len(a) + 1 \/ CodeRank(a[k]) < CodeRank(b[k]))

\* sorted(symbols)
RECURSIVE Sorted(_)
Sorted(S) ==
    IF S = {} THEN <<>>
    ELSE CHOOSE r \in {<<m>> \o Sorted(S \ {m}) :
                         m \in {x \in S : \A y \in S : x = y \/ StrLess(x, y)}} : TRUE

AtStatement ==
    /\ pc = "semantic"
    /\ sk < Len(Flat(ast))

SemUnknownOp ==
    /\ AtStatement
    /\ SemCheck(Flat(ast)[sk + 1].st) = "unknown"
    /\ err' = [kind |-> "SemanticError", what |-> "Unknown op",
               op |-> Flat(ast)[sk + 1].st.op, gate |-> Flat(ast)[sk + 1].gate]
    /\ pc' = "error"
    /\ UNCHANGED <<src, lexVars, compVars, machVars>>

SemArity ==
    /\ AtStatement
    /\ SemCheck(Flat(ast)[sk + 1].st) = "arity"
    /\ err' = [kind |-> "SemanticError", what |-> "expects",
               op |-> Flat(ast)[sk + 1].st.op,
               exp |-> OPS_ARITY[Flat(ast)[sk + 1].st.op],
               got |-> Len(Flat(ast)[sk + 1].st.args)]
    /\ pc' = "error"
    /\ UNCHANGED <<src, lexVars, compVars, machVars>>

SemAccept ==
    /\ AtStatement
    /\ SemCheck(Flat(ast)[sk + 1].st) = "ok"
    /\ symbols' = SemAdd(symbols, Flat(ast)[sk + 1].st)
    /\ sk' = sk + 1
    /\ UNCHANGED <<src, pc, err, lexVars, parseVars, ast, syms, emitVars, machVars>>

SemReturn ==
    /\ pc = "semantic"
    /\ sk = Len(Flat(ast))
    /\ syms' = Sorted(symbols)
    /\ pc' = "emit"
    /\ UNCHANGED <<src, err, lexVars, parseVars, ast, symbols, sk, emitVars, machVars>>

-----------------------------------------------------------------------------
(* 4. Emitter *)

\* An operand as the emitter prints it
Opnd(k, s, n) == [k |-> k, s |-> s, n |-> n]

None == Opnd("none", <<>>, 0)
Imm(n) == Opnd("imm", <<>>, n)         \* 5
Mem(s) == Opnd("mem", s, 0)            \* [x]
Abs(n) == Opnd("abs", <<>>, n)         \* [5]
Reg(r) == Opnd("reg", <<r>>, 0)        \* rax
Name(s) == Opnd("name", s, 0)          \* a label or an external symbol
Addr(n) == Opnd("addr", <<>>, n)       \* a number where a label is expected
Lloop(n) == Opnd("Lloop", <<>>, n)     \* .Lloop<n>
Lend(n) == Opnd("Lend", <<>>, n)       \* .Lend<n>

\* One line of the output file
Ins(op, a, b) == [op |-> op, a |-> a, b |-> b]

\* a val that prints a symbol without its brackets
ValNoBracket(arg) == IF arg.kind = "int" THEN Imm(arg.n) ELSE Name(arg.s)

\* val(arg)
Val(arg) == IF arg.kind = "int" THEN Imm(arg.n) ELSE Mem(arg.s)

\* f"[{arg}]"
Bracket(arg) == IF arg.kind = "int" THEN Abs(arg.n) ELSE Mem(arg.s)

\* f"{arg}" where a label is meant
Target(arg) == IF arg.kind = "int" THEN Addr(arg.n) ELSE Name(arg.s)

Emitted(lines, n) == [lines |-> lines, lbl |-> n, fault |-> FALSE]

\* a COMPARE lowered like AND, OR and XOR, with the closing store
EmitCompareStores(dst, a1, a2) ==
    <<Ins("mov", Reg("rax"), a1), Ins("cmp", Reg("rax"), a2), Ins("mov", dst, Reg("rax"))>>

\* the COMPARE case of emit_stmt
EmitCompare(dst, a1, a2) ==
    <<Ins("mov", Reg("rax"), a1), Ins("cmp", Reg("rax"), a2)>>

\* a JUMP_IF that branches on equality
EmitJumpIfEqual(a) == <<Ins("je", Target(a[2]), None)>>

\* the JUMP_IF case of emit_stmt: target_gate = a[1]
EmitJumpIf(a) == <<Ins("jne", Target(a[2]), None)>>

\* the DISPLAY case of emit_stmt
EmitDisplay(a1) ==
    <<Ins("mov", Reg("rcx"), Name(<<"fmt_dec">>)),
      Ins("mov", Reg("rdx"), a1),
      Ins("xor", Reg("rax"), Reg("rax")),
      Ins("call", Name(<<"printf">>), None)>>

\* a loop that leaves the counter's cell as it was
EmitLoopNoStore(a, n) ==
    Emitted(<<Ins("mov", Reg("rax"), Bracket(a[1])),
              Ins("label", Lloop(n), None),
              Ins("cmp", Reg("rax"), Imm(0)),
              Ins("je", Lend(n), None),
              Ins("add", Bracket(a[3]), Val(a[2])),
              Ins("dec", Reg("rax"), None),
              Ins("jmp", Lloop(n), None),
              Ins("label", Lend(n), None)>>, n + 1)

\* an emitter that numbers every loop's labels from the same suffix
EmitLoopNoBump(a, n) ==
    Emitted(<<Ins("mov", Reg("rax"), Bracket(a[1])),
              Ins("label", Lloop(n), None),
              Ins("cmp", Reg("rax"), Imm(0)),
              Ins("je", Lend(n), None),
              Ins("add", Bracket(a[3]), Val(a[2])),
              Ins("dec", Reg("rax"), None),
              Ins("jmp", Lloop(n), None),
              Ins("label", Lend(n), None),
              Ins("mov", Bracket(a[1]), Reg("rax"))>>, n)

\* the LOOP case of emit_stmt: ctr, step, acc = a
EmitLoop(a, n) ==
    Emitted(<<Ins("mov", Reg("rax"), Bracket(a[1])),
              Ins("label", Lloop(n), None),
              Ins("cmp", Reg("rax"), Imm(0)),
              Ins("je", Lend(n), None),
              Ins("add", Bracket(a[3]), Val(a[2])),
              Ins("dec", Reg("rax"), None),
              Ins("jmp", Lloop(n), None),
              Ins("label", Lend(n), None),
              Ins("mov", Bracket(a[1]), Reg("rax"))>>, n + 1)

\* mov rax, a1 / <instr> rax, a2 / mov dst, rax
ViaRax(instr, dst, a1, a2) ==
    <<Ins("mov", Reg("rax"), a1), Ins(instr, Reg("rax"), a2), Ins("mov", dst, Reg("rax"))>>

\* emit_stmt(w, st, lbl): the lines written and the lbl returned, or the
\* NotImplementedError of the final else
emit_stmt(st, n) ==
    LET dst == Mem(st.dest)
        a == st.args
        a1 == IF Len(a) > 0 THEN Val(a[1]) ELSE None
        a2 == IF Len(a) > 1 THEN Val(a[2]) ELSE None
    IN  IF st.op = OP_SET THEN Emitted(<<Ins("mov", dst, a1)>>, n)
        ELSE IF st.op = OP_ADD THEN Emitted(<<Ins("add", dst, a1)>>, n)
        ELSE IF st.op = OP_SUB THEN Emitted(<<Ins("sub", dst, a1)>>, n)
        ELSE IF st.op = OP_MUL
            THEN Emitted(<<Ins("mov", Reg("rax"), dst), Ins("imul", Reg("rax"), a1),
                           Ins("mov", dst, Reg("rax"))>>, n)
        ELSE IF st.op = OP_DIV
            THEN Emitted(<<Ins("xor", Reg("rdx"), Reg("rdx")), Ins("mov", Reg("rax"), dst),
                           Ins("div", a1, None), Ins("mov", dst, Reg("rax"))>>, n)
        ELSE IF st.op = OP_AND THEN Emitted(ViaRax("and", dst, a1, a2), n)
        ELSE IF st.op = OP_OR THEN Emitted(ViaRax("or", dst, a1, a2), n)
        ELSE IF st.op = OP_XOR THEN Emitted(ViaRax("xor", dst, a1, a2), n)
        ELSE IF st.op = OP_NOT
            THEN Emitted(<<Ins("mov", Reg("rax"), a1), Ins("not", Reg("rax"), None),
                           Ins("mov", dst, Reg("rax"))>>, n)
        ELSE IF st.op = OP_SHIFT_LEFT THEN Emitted(ViaRax("shl", dst, a1, a2), n)
        ELSE IF st.op = OP_SHIFT_RIGHT THEN Emitted(ViaRax("shr", dst, a1, a2), n)
        ELSE IF st.op = OP_COMPARE THEN Emitted(EmitCompare(dst, a1, a2), n)
        ELSE IF st.op = OP_JUMP_IF THEN Emitted(EmitJumpIf(a), n)
        ELSE IF st.op = OP_DISPLAY THEN Emitted(EmitDisplay(a1), n)
        ELSE IF st.op = OP_LOOP THEN EmitLoop(a, n)
        ELSE [lines |-> <<>>, lbl |-> n, fault |-> TRUE]

\* What emit writes before its loops: the banner, the data section, one resq
\* per symbol, and the text preamble
Header(names) ==
    <<Ins("comment", Name(<<"generated by celc.py">>), None),
      Ins("section", Name(<<".data">>), None),
      Ins("db", Name(<<"fmt_dec">>), None),
      Ins("section", Name(<<".bss">>), None)>>
    \o [k \in DOMAIN names |-> Ins("resq", Name(names[k]), Imm(1))]
    \o <<Ins("section", Name(<<".text">>), None),
         Ins("extern", Name(<<"printf">>), None),
         Ins("global", Name(<<"main">>), None),
         Ins("label", Name(<<"main">>), None)>>

Footer == <<Ins("xor", Reg("rax"), Reg("rax")), Ins("ret", None, None)>>

\* What the loops of emit pass, in order: each block's gate comment, then its
\* statements
RECURSIVE EmitItems(_)
EmitItems(bs) ==
    IF bs = <<>> THEN <<>>
    ELSE <<[gate |-> Head(bs).gate, isgate |-> TRUE, st |-> <<>>]>>
         \o [k \in 1..Len(Head(bs).statements) |->
                [gate |-> Head(bs).gate, isgate |-> FALSE,
                 st |-> Head(bs).statements[k]]]
         \o EmitItems(Tail(bs))

\* emit opens the file and writes up to "main:"; lbl = 0
EmitHeader ==
    /\ pc = "emit"
    /\ out' = Header(syms)
    /\ lbl' = 0
    /\ ek' = 0
    /\ pc' = "emit_body"
    /\ UNCHANGED <<src, err, lexVars, parseVars, semVars, machVars>>

EmitGate ==
    /\ pc = "emit_body"
    /\ ek < Len(EmitItems(ast))
    /\ EmitItems(ast)[ek + 1].isgate
    /\ out' = Append(out, Ins("comment", Name(EmitItems(ast)[ek + 1].gate), None))
    /\ ek' = ek + 1
    /\ UNCHANGED <<src, pc, err, lexVars, parseVars, semVars, lbl, machVars>>

\* lbl = emit_stmt(w, st, lbl)
EmitStatement ==
    /\ pc = "emit_body"
    /\ ek < Len(EmitItems(ast))
    /\ ~EmitItems(ast)[ek + 1].isgate
    /\ LET r == emit_stmt(EmitItems(ast)[ek + 1].st, lbl)
       IN  IF r.fault
           THEN /\ err' = [kind |-> "NotImplementedError",
                           op |-> EmitItems(ast)[ek + 1].st.op]
                /\ pc' = "error"
                /\ UNCHANGED <<out, lbl, ek>>
           ELSE /\ out' = out \o r.lines
                /\ lbl' = r.lbl
                /\ ek' = ek + 1
                /\ UNCHANGED <<pc, err>>
    /\ UNCHANGED <<src, lexVars, parseVars, semVars, machVars>>

EmitFooter ==
    /\ pc = "emit_body"
    /\ ek = Len(EmitItems(ast))
    /\ out' = out \o Footer
    /\ pc' = "done"
    /\ UNCHANGED <<src, err, lexVars, parseVars, semVars, ek, lbl, machVars>>

-----------------------------------------------------------------------------
(* The lexer alone, over every text of a small alphabet *)

MaxSrcLen == 4

LexAlphabet == {"a", "7", "\n", " ", "\t", "@", ";"}

RECURSIVE SeqsUpTo(_, _)
SeqsUpTo(S, n) ==
    IF n = 0 THEN {<<>>}
    ELSE LET shorter == SeqsUpTo(S, n - 1)
         IN  shorter \cup {Append(s, c) : s \in {t \in shorter : Len(t) = n - 1}, c \in S}

\* main() before its first statement, with text as the input file's content;
\* nothing has been parsed, collected, written or executed yet.
Start(text) ==
    /\ src = text
    /\ pc = "lex"
    /\ pos = 0
    /\ line = 1
    /\ line_start = 0
    /\ toks = <<>>
    /\ err = NoErr
    /\ pi = 1
    /\ blocks = <<>>
    /\ gate = <<>>
    /\ stmts = <<>>
    /\ ast = <<>>
    /\ symbols = {}
    /\ sk = 0
    /\ syms = <<>>
    /\ out = <<>>
    /\ ek = 0
    /\ lbl = 0
    /\ code = <<>>
    /\ ip = 0
    /\ cells = <<>>
    /\ regs = <<>>
    /\ zf = FALSE
    /\ mark = <<>>

InitLex == \E text \in SeqsUpTo(LexAlphabet, MaxSrcLen) : Start(text)

NextLex == LexNewline \/ LexSkip \/ LexMismatch \/ LexToken \/ LexEnd

SpecLex == InitLex /\ [][NextLex]_vars

-----------------------------------------------------------------------------
(* The whole compilation, main() from the text to the written file *)

\* semantic(root) as one call: the sorted list, or the statement it raised at
RECURSIVE SemFold(_, _, _)
SemFold(items, k, symset) ==
    IF k > Len(items) THEN [ok |-> TRUE, at |-> 0, syms |-> Sorted(symset)]
    ELSE IF SemCheck(items[k].st) # "ok" THEN [ok |-> FALSE, at |-> k, syms |-> <<>>]
    ELSE SemFold(items, k + 1, SemAdd(symset, items[k].st))

semantic(bs) == SemFold(Flat(bs), 1, {})

\* Source texts: a statement is written "dest : OP arg, arg;", a block
\* "[gate]{ statements }", blocks on lines of their own.
RECURSIVE Join(_, _)
Join(parts, sep) ==
    IF parts = <<>> THEN <<>>
    ELSE IF Len(parts) = 1 THEN parts[1]
    ELSE parts[1] \o sep \o Join(Tail(parts), sep)

StmtText(st) ==
    st.dest \o <<" ", ":", " ">> \o st.op \o <<" ">> \o Join(st.args, <<",", " ">>) \o <<";">>

BlockText(blk) ==
    <<"[">> \o blk.gate \o <<"]", "{", " ">>
        \o Join([k \in DOMAIN blk.statements |-> StmtText(blk.statements[k])] \o <<<<>>>>, <<" ">>)
        \o <<"}">>

ProgramText(bs) == Join([k \in DOMAIN bs |-> BlockText(bs[k])], <<"\n">>)

St(dest, op, args) == [dest |-> dest, op |-> op, args |-> args]

Blk(g, body) == [gate |-> g, statements |-> body]

\* Bounds of the probe programs
MaxArgs == 4
MaxFill == 2

OP_MOD == <<"M", "O", "D">>

ProbeOps == DOMAIN OPS_ARITY \cup {OP_MOD, <<"s", "e", "t">>, <<"L", "o", "o", "p">>}

ArgCycle == <<<<"x">>, <<"0", "7">>, <<"y">>>>

ProbeArgs(n) == [k \in 1..n |-> ArgCycle[((k - 1) % Len(ArgCycle)) + 1]]

Filler == St(<<"a">>, <<"S", "E", "T">>, <<<<"1">>>>)

Suffixes ==
    {<<>>,
     <<St(<<"z">>, OP_ADD, <<<<"1">>, <<"2">>>>)>>,
     <<St(<<"z">>, <<"F", "O", "O">>, <<<<"1">>>>)>>}

\* k valid statements, a statement with any opcode and argument count, and
\* possibly a faulty statement after it; in one gate or split over two
ProbePrograms ==
    UNION {
        LET fill == [j \in 1..k |-> Filler]
            probe == <<St(<<"d">>, op, ProbeArgs(n))>>
        IN  {<<Blk(<<"g">>, fill \o probe \o suf)>>,
             <<Blk(<<"g">>, fill), Blk(<<"h", "2">>, probe \o suf)>>}
        : k \in 0..MaxFill, op \in ProbeOps, n \in 1..MaxArgs, suf \in Suffixes}

\* Bound of the programs over a pool of valid statements
MaxStmts == 3

StmtPool ==
    {St(<<"b">>, OP_SET, <<<<"5">>>>),
     St(<<"a">>, <<"a", "d", "d">>, <<<<"b">>>>),
     St(<<"B", "2">>, OP_LOOP, <<<<"a">>, <<"1">>, <<"b">>>>),
     St(<<"_", "t">>, OP_LOOP, <<<<"b">>, <<"a">>, <<"b", "0">>>>),
     St(<<"a">>, OP_JUMP_IF, <<<<"b">>, <<"g">>>>)}

PoolPrograms ==
    UNION {
        {<<Blk(<<"g">>, body)>>,
         IF body = <<>> THEN <<Blk(<<"g">>, <<>>), Blk(<<"h">>, <<>>)>>
         ELSE <<Blk(<<"g">>, <<Head(body)>>), Blk(<<"h">>, Tail(body))>>}
        : body \in SeqsUpTo(StmtPool, MaxStmts)}

\* The example program of the language description, as written there and
\* without the ';' after its closing brace
ExampleBody ==
    <<"[", "s", "t", "a", "r", "t", "]", "{", " ",
      "x", " ", ":", " ", "S", "E", "T", " ", "5", ";", " ",
      "y", " ", ":", " ", "S", "E", "T", " ", "0", ";", " ",
      "y", " ", ":", " ", "A", "D", "D", " ", "x", ";", " ", "}">>

ExampleSource == ExampleBody \o <<";">>

FaultyTexts ==
    {<<"[", "g", "]", "{", " ", "a", " ", ":", " ", "S", "E", "T", " ", "1", ";", "\n",
       " ", "b", " ", ":", " ", "S", "E", "T", " ", "@", ";", " ", "}">>,
     <<"[", "g", "]", "{", " ", "a", " ", ":", " ", "S", "E", "T", " ", "1", " ", "}">>,
     <<"[", "g", "]", "{", " ", "a", " ", ":", " ", "S", "E", "T", " ", "1", ";">>,
     <<"[", "g", "]", "{", " ", "a", " ", ":", " ", "S", "E", "T", ";", " ", "}">>,
     <<"a", " ", ":", " ", "C", "O", "M", "P", "A", "R", "E", " ", "b", ",", " ", "c", ";">>}

Sources ==
    {ProgramText(p) : p \in ProbePrograms \cup PoolPrograms}
        \cup {ExampleBody, ExampleSource} \cup FaultyTexts

Init == \E text \in Sources : Start(text)

Next ==
    \/ LexNewline \/ LexSkip \/ LexMismatch \/ LexToken \/ LexEnd
    \/ ParseBlockHead \/ ParseStatementSemi \/ ParseBlockEnd \/ ParseEnd
    \/ SemUnknownOp \/ SemArity \/ SemAccept \/ SemReturn
    \/ EmitHeader \/ EmitGate \/ EmitStatement \/ EmitFooter

Spec == Init /\ [][Next]_vars

-----------------------------------------------------------------------------
(* 5. The emitted instruction region, executed.  A cell is the resq of a    *)
(* symbol; a word has WordBits bits.  A register whose content no emitted   *)
(* instruction has set holds Undef, and reading it gives any word.          *)

WordBits == 2

RECURSIVE Pow2(_)
Pow2(n) == IF n = 0 THEN 1 ELSE 2 * Pow2(n - 1)

Modulus == Pow2(WordBits)

Values == 0..(Modulus - 1)

Undef == Modulus

FmtAddr == Modulus + 1

\* The lines emit's loops write for the statements, each with the index of
\* its statement, and the closing xor rax, rax / ret
RECURSIVE BodyFrom(_, _, _)
BodyFrom(items, j, n) ==
    IF j > Len(items)
    THEN [i \in DOMAIN Footer |-> [ins |-> Footer[i], k |-> j]]
    ELSE [i \in DOMAIN emit_stmt(items[j].st, n).lines |->
             [ins |-> emit_stmt(items[j].st, n).lines[i], k |-> j]]
         \o BodyFrom(items, j + 1, emit_stmt(items[j].st, n).lbl)

Body(bs) == BodyFrom(Flat(bs), 1, 0)

RECURSIVE SkipLabels(_, _)
SkipLabels(c, i) ==
    IF i <= Len(c) /\ c[i].ins.op = "label" THEN SkipLabels(c, i + 1) ELSE i

HasLabel(c, t) == \E i \in DOMAIN c : c[i].ins.op = "label" /\ c[i].ins.a = t

LabelIndex(c, t) == CHOOSE i \in DOMAIN c : c[i].ins.op = "label" /\ c[i].ins.a = t

\* the words an operand may give when read
ReadSet(o) ==
    IF o.k = "imm" THEN {o.n % Modulus}
    ELSE IF o.k = "mem" THEN {cells[o.s]}
    ELSE IF o.k = "reg" THEN (IF regs[o.s[1]] = Undef THEN Values ELSE {regs[o.s[1]]})
    ELSE IF o.k = "name" THEN {FmtAddr}
    ELSE {}

CellsWith(o, v) == IF o.k = "mem" THEN [cells EXCEPT ![o.s] = v] ELSE cells

RegsWith(o, v) == IF o.k = "reg" THEN [regs EXCEPT ![o.s[1]] = v] ELSE regs

Bit(v, i) == (v \div Pow2(i)) % 2

RECURSIVE Bitwise(_, _, _, _)
Bitwise(op, x, y, i) ==
    IF i = WordBits THEN 0
    ELSE Pow2(i) * (IF op = "and" THEN Bit(x, i) * Bit(y, i)
                    ELSE IF op = "or" THEN (IF Bit(x, i) + Bit(y, i) > 0 THEN 1 ELSE 0)
                    ELSE (Bit(x, i) + Bit(y, i)) % 2)
         + Bitwise(op, x, y, i + 1)

\* the result of a two-operand instruction; a shift count is taken modulo
\* the word size
Alu(op, x, y) ==
    IF op = "add" THEN (x + y) % Modulus
    ELSE IF op = "sub" THEN (x + Modulus - y) % Modulus
    ELSE IF op = "imul" THEN (x * y) % Modulus
    ELSE IF op = "shl" THEN (x * Pow2(y % WordBits)) % Modulus
    ELSE IF op = "shr" THEN x \div Pow2(y % WordBits)
    ELSE Bitwise(op, x, y, 0)

\* ZF after a two-operand instruction: set from the result, undefined after
\* imul, left alone by a shift of count 0
ZfAfter(op, v, y) ==
    IF op = "imul" THEN BOOLEAN
    ELSE IF op \in {"shl", "shr"} /\ y % WordBits = 0 THEN {zf}
    ELSE {v = 0}

StmtAt(i) == IF i \in DOMAIN code THEN code[i].k ELSE 0

OpOf(k) == IF k \in DOMAIN Flat(ast) THEN Flat(ast)[k].st.op ELSE <<>>

\* What the run has passed once control is at i with the cells cs: the
\* statement it is in and the cells at its entry, the same for the statement
\* before, the instructions executed in it, the last COMPARE's outcome and the
\* opcodes entered since, the last JUMP_IF's decision
Passed(i, cs, outcome, decision) ==
    [k |-> StmtAt(i),
     at |-> IF StmtAt(i) # mark.k THEN cs ELSE mark.at,
     pk |-> IF StmtAt(i) # mark.k THEN mark.k ELSE mark.pk,
     pat |-> IF StmtAt(i) # mark.k THEN mark.at ELSE mark.pat,
     gsteps |-> IF StmtAt(i) # mark.k THEN 0 ELSE mark.gsteps + 1,
     cmp |-> IF outcome # "none" THEN outcome ELSE mark.cmp,
     since |-> (IF outcome # "none" THEN {} ELSE mark.since)
                  \cup (IF StmtAt(i) # mark.k /\ StmtAt(i) \in DOMAIN Flat(ast)
                        THEN {OpOf(StmtAt(i))} ELSE {}),
     jmp |-> IF decision.k # 0 THEN decision ELSE mark.jmp]

NoDecision == [k |-> 0, taken |-> FALSE, target |-> None, cmp |-> "none", since |-> {}]

Running == pc = "run" /\ ip \in DOMAIN code

Fall == SkipLabels(code, ip + 1)

ExecMov ==
    /\ Running
    /\ code[ip].ins.op = "mov"
    /\ \E v \in ReadSet(code[ip].ins.b) :
          /\ cells' = CellsWith(code[ip].ins.a, v)
          /\ regs' = RegsWith(code[ip].ins.a, v)
          /\ mark' = Passed(Fall, CellsWith(code[ip].ins.a, v), "none", NoDecision)
    /\ ip' = Fall
    /\ UNCHANGED <<src, pc, err, lexVars, compVars, code, zf>>

ExecAlu ==
    /\ Running
    /\ code[ip].ins.op \in {"add", "sub", "imul", "and", "or", "xor", "shl", "shr"}
    /\ \E x \in ReadSet(code[ip].ins.a) :
          \E y \in (IF code[ip].ins.a = code[ip].ins.b THEN {x} ELSE ReadSet(code[ip].ins.b)) :
             /\ cells' = CellsWith(code[ip].ins.a, Alu(code[ip].ins.op, x, y))
             /\ regs' = RegsWith(code[ip].ins.a, Alu(code[ip].ins.op, x, y))
             /\ zf' \in ZfAfter(code[ip].ins.op, Alu(code[ip].ins.op, x, y), y)
             /\ mark' = Passed(Fall, CellsWith(code[ip].ins.a, Alu(code[ip].ins.op, x, y)),
                               "none", NoDecision)
    /\ ip' = Fall
    /\ UNCHANGED <<src, pc, err, lexVars, compVars, code>>

ExecCmp ==
    /\ Running
    /\ code[ip].ins.op = "cmp"
    /\ \E x \in ReadSet(code[ip].ins.a), y \in ReadSet(code[ip].ins.b) :
          /\ zf' = (x = y)
          /\ mark' = Passed(Fall, cells,
                            IF OpOf(code[ip].k) # OP_COMPARE THEN "none"
                            ELSE IF x = y THEN "eq" ELSE "ne",
                            NoDecision)
    /\ ip' = Fall
    /\ UNCHANGED <<src, pc, err, lexVars, compVars, code, cells, regs>>

ExecNot ==
    /\ Running
    /\ code[ip].ins.op = "not"
    /\ \E x \in ReadSet(code[ip].ins.a) :
          /\ cells' = CellsWith(code[ip].ins.a, Modulus - 1 - x)
          /\ regs' = RegsWith(code[ip].ins.a, Modulus - 1 - x)
          /\ mark' = Passed(Fall, CellsWith(code[ip].ins.a, Modulus - 1 - x), "none", NoDecision)
    /\ ip' = Fall
    /\ UNCHANGED <<src, pc, err, lexVars, compVars, code, zf>>

ExecDec ==
    /\ Running
    /\ code[ip].ins.op = "dec"
    /\ \E x \in ReadSet(code[ip].ins.a) :
          /\ cells' = CellsWith(code[ip].ins.a, (x + Modulus - 1) % Modulus)
          /\ regs' = RegsWith(code[ip].ins.a, (x + Modulus - 1) % Modulus)
          /\ zf' = ((x + Modulus - 1) % Modulus = 0)
          /\ mark' = Passed(Fall, CellsWith(code[ip].ins.a, (x + Modulus - 1) % Modulus),
                            "none", NoDecision)
    /\ ip' = Fall
    /\ UNCHANGED <<src, pc, err, lexVars, compVars, code>>

\* div: rdx:rax by the operand; a zero divisor or a quotient that does not
\* fit raises the divide error, and the flags are undefined afterwards
ExecDiv ==
    /\ Running
    /\ code[ip].ins.op = "div"
    /\ \E d \in ReadSet(code[ip].ins.a), hi \in ReadSet(Reg("rdx")), lo \in ReadSet(Reg("rax")) :
          IF d = 0 \/ (hi * Modulus + lo) \div d >= Modulus
          THEN /\ pc' = "fault"
               /\ ip' = 0
               /\ mark' = Passed(0, cells, "none", NoDecision)
               /\ UNCHANGED <<regs, zf>>
          ELSE /\ regs' = [regs EXCEPT !["rax"] = (hi * Modulus + lo) \div d,
                                       !["rdx"] = (hi * Modulus + lo) % d]
               /\ zf' \in BOOLEAN
               /\ ip' = Fall
               /\ mark' = Passed(Fall, cells, "none", NoDecision)
               /\ pc' = pc
    /\ UNCHANGED <<src, err, lexVars, compVars, code, cells>>

\* je, jne, jmp: to a label of the region, or out of it to a name that the
\* region does not define
ExecJump ==
    /\ Running
    /\ code[ip].ins.op \in {"je", "jne", "jmp"}
    /\ LET taken == \/ code[ip].ins.op = "jmp"
                    \/ code[ip].ins.op = "je" /\ zf
                    \/ code[ip].ins.op = "jne" /\ ~zf
           to == IF ~taken THEN Fall
                 ELSE IF HasLabel(code, code[ip].ins.a)
                      THEN SkipLabels(code, LabelIndex(code, code[ip].ins.a))
                 ELSE 0
           decision == IF OpOf(code[ip].k) = OP_JUMP_IF
                       THEN [k |-> code[ip].k, taken |-> taken, target |-> code[ip].ins.a,
                             cmp |-> mark.cmp, since |-> mark.since]
                       ELSE NoDecision
       IN  /\ ip' = to
           /\ pc' = IF to = 0 THEN "left" ELSE pc
           /\ mark' = Passed(to, cells, "none", decision)
    /\ UNCHANGED <<src, err, lexVars, compVars, code, cells, regs, zf>>

\* call printf: the volatile registers and the flags come back with any
\* content; no cell is passed to it
ExecCall ==
    /\ Running
    /\ code[ip].ins.op = "call"
    /\ regs' = [r \in DOMAIN regs |-> Undef]
    /\ zf' \in BOOLEAN
    /\ ip' = Fall
    /\ mark' = Passed(Fall, cells, "none", NoDecision)
    /\ UNCHANGED <<src, pc, err, lexVars, compVars, code, cells>>

ExecRet ==
    /\ Running
    /\ code[ip].ins.op = "ret"
    /\ pc' = "exited"
    /\ ip' = 0
    /\ mark' = Passed(0, cells, "none", NoDecision)
    /\ UNCHANGED <<src, err, lexVars, compVars, code, cells, regs, zf>>

-----------------------------------------------------------------------------
(* The run of a compiled program, from any content of the cells it reads *)

MaxMid == 1

Sc == <<"c">>
Sa == <<"a">>
Ss == <<"s">>
Sd == <<"d">>
Sg == <<"g">>

Stmt(dest, op, args) == [dest |-> dest, op |-> op, args |-> args]

LoopPrograms ==
    {<<Stmt(Sd, OP_LOOP, <<StrArg(Sc), step, StrArg(acc)>>)>> :
        step \in {StrArg(Sc), StrArg(Sa), StrArg(Ss), IntArg(1), IntArg(3)},
        acc \in {Sc, Sa}}
    \cup {<<Stmt(Sd, OP_LOOP, <<StrArg(Sc), IntArg(1), StrArg(Sa)>>),
            Stmt(Sd, OP_LOOP, <<StrArg(Sa), IntArg(2), StrArg(Sc)>>)>>,
          <<Stmt(Sd, OP_DISPLAY, <<StrArg(Sc)>>),
            Stmt(Sc, OP_LOOP, <<StrArg(Sa), StrArg(Sc), StrArg(Sd)>>)>>}

MidPool ==
    {Stmt(Sa, OP_SET, <<StrArg(Sc)>>),
     Stmt(Sc, OP_NOT, <<StrArg(Sa)>>),
     Stmt(Sa, OP_ADD, <<IntArg(1)>>),
     Stmt(Sa, OP_SUB, <<StrArg(Sc)>>),
     Stmt(Sa, OP_MUL, <<StrArg(Sc)>>),
     Stmt(Sa, OP_DIV, <<StrArg(Sc)>>),
     Stmt(Sa, OP_XOR, <<StrArg(Sc), IntArg(1)>>),
     Stmt(Sa, OP_SHIFT_LEFT, <<StrArg(Sc), StrArg(Sa)>>),
     Stmt(Sa, OP_DISPLAY, <<StrArg(Sc)>>),
     Stmt(Sa, OP_COMPARE, <<StrArg(Sa), IntArg(1)>>),
     Stmt(Sd, OP_JUMP_IF, <<StrArg(Sa), StrArg(Sg)>>),
     Stmt(Sd, OP_LOOP, <<StrArg(Sc), IntArg(1), StrArg(Sa)>>)}

JumpPrograms ==
    {<<Stmt(Sd, OP_COMPARE, <<StrArg(Sc), StrArg(Sa)>>)>> \o mid \o <<jump>> :
        mid \in SeqsUpTo(MidPool, MaxMid),
        jump \in {Stmt(Sd, OP_JUMP_IF, <<IntArg(0), StrArg(Sg)>>),
                  Stmt(Sc, OP_JUMP_IF, <<StrArg(Sa), StrArg(Sg)>>)}}

ExecPrograms == {<<Blk(<<"m">>, body)>> : body \in LoopPrograms \cup JumpPrograms}

\* the cells a program reads before it writes them may hold any word
FreeSyms == {Sc, Sa, Ss}

InitExec ==
    \E p \in ExecPrograms :
        \E cs \in [Range(semantic(p).syms) -> Values] :
            /\ \A s \in DOMAIN cs : s \notin FreeSyms => cs[s] = 0
            /\ semantic(p).ok
            /\ src = <<>>
            /\ pc = "run"
            /\ pos = 0
            /\ line = 1
            /\ line_start = 0
            /\ toks = <<>>
            /\ err = NoErr
            /\ pi = 1
            /\ blocks = p
            /\ gate = <<>>
            /\ stmts = <<>>
            /\ ast = p
            /\ symbols = Range(semantic(p).syms)
            /\ sk = Len(Flat(p))
            /\ syms = semantic(p).syms
            /\ out = <<>>
            /\ ek = 0
            /\ lbl = 0
            /\ code = Body(p)
            /\ ip = SkipLabels(Body(p), 1)
            /\ cells = cs
            /\ regs = [r \in {"rax", "rcx", "rdx"} |-> Undef]
            /\ zf \in BOOLEAN
            /\ mark = [k |-> 1, at |-> cs, pk |-> 0, pat |-> cs, gsteps |-> 0,
                       cmp |-> "none", since |-> {Flat(p)[1].st.op}, jmp |-> NoDecision]

NextExec ==
    \/ ExecMov \/ ExecAlu \/ ExecCmp \/ ExecNot \/ ExecDec \/ ExecDiv
    \/ ExecJump \/ ExecCall \/ ExecRet

SpecExec == InitExec /\ [][NextExec]_vars

-----------------------------------------------------------------------------
(* The arity table as the language description gives it *)

ArityOne == {OP_SET, OP_ADD, OP_SUB, OP_MUL, OP_DIV, OP_NOT, OP_DISPLAY}

ArityTwo == {OP_COMPARE, OP_AND, OP_OR, OP_XOR, OP_SHIFT_LEFT, OP_SHIFT_RIGHT, OP_JUMP_IF}

ArityThree == {OP_LOOP}

TableOps == ArityOne \cup ArityTwo \cup ArityThree

Declared(op) == IF op \in ArityOne THEN 1 ELSE IF op \in ArityTwo THEN 2 ELSE 3

WrongCount(st) == st.op \in TableOps /\ Len(st.args) # Declared(st.op)

Validated == pc \in {"emit", "emit_body", "done"}

-----------------------------------------------------------------------------
(* C1: the symbol list *)

\* The identifiers of a text that stand as a destination or as an argument:
\* every IDENT token but the gate after '[' and the opcode after ':'
SymbolTokens(ts) ==
    {i \in DOMAIN ts : /\ ts[i].type = "IDENT"
                       /\ (i = 1 \/ ts[i - 1].type \notin {"LBRACKET", "COLON"})}

Perms(n) == {f \in [1..n -> 1..n] : \A i, j \in 1..n : f[i] = f[j] => i = j}

RECURSIVE SizeBefore(_, _)
SizeBefore(bs, k) ==
    IF k = 1 THEN 0 ELSE SizeBefore(bs, k - 1) + Len(bs[k - 1].statements)

\* The program with its blocks reordered by pb and its statements by ps
Reordered(bs, pb, ps) ==
    [k \in DOMAIN bs |->
        [gate |-> bs[pb[k]].gate,
         statements |->
            [j \in 1..Len(bs[pb[k]].statements) |->
                Flat(bs)[ps[SizeBefore([b \in DOMAIN bs |-> bs[pb[b]]], k) + j]].st]]]

Reorderings(bs) ==
    {Reordered(bs, pb, ps) : pb \in Perms(Len(bs)), ps \in Perms(Len(Flat(bs)))}

\* C1: for a program that passes validation the symbol list holds exactly the
\* identifiers used as a destination or as an identifier argument, each once,
\* in ascending order of code points, and every reordering of the blocks and
\* statements gives the same list.
C1_SymbolList ==
    Validated =>
        /\ Range(syms) = {toks[i].value : i \in SymbolTokens(toks)}
        /\ \A i \in 1..(Len(syms) - 1) : StrLess(syms[i], syms[i + 1])
        /\ Range(syms) = {<<"B", "2">>, <<"_", "t">>, <<"a">>, <<"b">>, <<"b", "0">>, <<"g">>}
              => syms = <<<<"B", "2">>, <<"_", "t">>, <<"a">>, <<"b">>, <<"b", "0">>, <<"g">>>>
        /\ pc = "emit" =>
              \A r \in Reorderings(ast) : semantic(r).ok /\ semantic(r).syms = syms

C1_Witness ==
    /\ pc = "done"
    /\ Len(syms) = 6
    /\ Cardinality(SymbolTokens(toks)) > 6
    /\ Len(ast) = 2

-----------------------------------------------------------------------------
(* C2: the arity check *)

\* C2: a statement whose opcode is in the table is accepted exactly when its
\* argument count is the declared one; otherwise validation ends at it, the
\* first such statement, with a semantic error that names the opcode.
C2_ArityCheck ==
    /\ (pc = "semantic" \/ Validated) =>
          \A j \in 1..sk : ~WrongCount(Flat(ast)[j].st)
    /\ Validated => sk = Len(Flat(ast))
    /\ (pc = "semantic" /\ sk < Len(Flat(ast)) /\ Flat(ast)[sk + 1].st.op \in TableOps) =>
          /\ ENABLED SemAccept <=> ~WrongCount(Flat(ast)[sk + 1].st)
          /\ ENABLED SemArity <=> WrongCount(Flat(ast)[sk + 1].st)
          /\ ~ENABLED SemUnknownOp
    /\ (pc = "error" /\ err.kind = "SemanticError" /\ err.what = "expects") =>
          /\ WrongCount(Flat(ast)[sk + 1].st)
          /\ \A j \in 1..sk : ~WrongCount(Flat(ast)[j].st)
          /\ err.op = Flat(ast)[sk + 1].st.op
          /\ err.exp = Declared(err.op)
          /\ err.got = Len(Flat(ast)[sk + 1].st.args)
          /\ ~ENABLED (SemAccept \/ SemArity \/ SemUnknownOp \/ SemReturn)

C2_Witness ==
    /\ pc = "error"
    /\ err.kind = "SemanticError"
    /\ err.what = "expects"
    /\ err.op = OP_LOOP
    /\ err.got = 2
    /\ sk = 2
    /\ \E j \in (sk + 2)..Len(Flat(ast)) : WrongCount(Flat(ast)[j].st)

-----------------------------------------------------------------------------
(* C3: nothing is written unless the three passes succeeded *)

UnknownOpcodeTokens(ts) ==
    {i \in DOMAIN ts : /\ ts[i].type = "IDENT"
                       /\ i > 1
                       /\ ts[i - 1].type = "COLON"
                       /\ Upper(ts[i].value) \notin TableOps}

\* C3: the first line is written only after the lexer, the parser and the
\* validator have each passed the whole program without error; a compilation
\* that ends in an error has written nothing, and the emitter never raises.
C3_NoOutputBeforeValidation ==
    /\ err.kind # "NotImplementedError"
    /\ pc = "error" => out = <<>>
    /\ UnknownOpcodeTokens(toks) # {} => out = <<>>
    /\ out # <<>> =>
          /\ err.kind = "none"
          /\ pos = Len(src)
          /\ pi = Len(toks) + 1
          /\ ast = blocks
          /\ sk = Len(Flat(ast))
          /\ \A j \in DOMAIN Flat(ast) :
                Flat(ast)[j].st.op \in TableOps /\ ~WrongCount(Flat(ast)[j].st)

C3_Witness ==
    /\ pc = "error"
    /\ err.kind = "SemanticError"
    /\ err.what = "Unknown op"
    /\ err.op = OP_MOD
    /\ sk = 2
    /\ out = <<>>

-----------------------------------------------------------------------------
(* C5: the label counter *)

IsLabel(kind, l) == l.op = "label" /\ l.a.k = kind

IsLloop(l) == IsLabel("Lloop", l)

IsLend(l) == IsLabel("Lend", l)

LoopsPassed ==
    Cardinality({j \in 1..ek : /\ ~EmitItems(ast)[j].isgate
                               /\ EmitItems(ast)[j].st.op = OP_LOOP})

Numbered(ls) == \A i \in DOMAIN ls : ls[i].a.n = i - 1

LabelsInOrder ==
    /\ pc \in {"lex", "parse", "block", "semantic", "emit", "error"} => lbl = 0
    /\ pc \in {"emit_body", "done"} =>
          /\ lbl = LoopsPassed
          /\ Len(SelectSeq(out, IsLloop)) = lbl
          /\ Len(SelectSeq(out, IsLend)) = lbl
          /\ Numbered(SelectSeq(out, IsLloop))
          /\ Numbered(SelectSeq(out, IsLend))

\* C5: the k-th LOOP statement of a compilation gets the suffix k - 1 for its
\* two labels, whatever stands between the LOOP statements and in whichever
\* gates they are, so two LOOP statements never share a suffix and every
\* compilation numbers from 0; lbl never decreases.
C5_LoopLabels == []LabelsInOrder /\ [][lbl' >= lbl]_vars

C5_Witness ==
    /\ pc = "done"
    /\ lbl = 2
    /\ Len(ast) = 2
    /\ Len(Flat(ast)) = 3
    /\ Flat(ast)[1].st.op = OP_LOOP
    /\ Flat(ast)[2].st.op # OP_LOOP
    /\ Flat(ast)[3].st.op = OP_LOOP

-----------------------------------------------------------------------------
(* C6: the example program *)

ExampleOutput ==
    <<Ins("comment", Name(<<"generated by celc.py">>), None),
      Ins("section", Name(<<".data">>), None),
      Ins("db", Name(<<"fmt_dec">>), None),
      Ins("section", Name(<<".bss">>), None),
      Ins("resq", Name(<<"x">>), Imm(1)),
      Ins("resq", Name(<<"y">>), Imm(1)),
      Ins("section", Name(<<".text">>), None),
      Ins("extern", Name(<<"printf">>), None),
      Ins("global", Name(<<"main">>), None),
      Ins("label", Name(<<"main">>), None),
      Ins("comment", Name(<<"s", "t", "a", "r", "t">>), None),
      Ins("mov", Mem(<<"x">>), Imm(5)),
      Ins("mov", Mem(<<"y">>), Imm(0)),
      Ins("add", Mem(<<"y">>), Mem(<<"x">>)),
      Ins("xor", Reg("rax"), Reg("rax")),
      Ins("ret", None, None)>>

CompilesToExample ==
    /\ pc # "error"
    /\ pc # "done" => ENABLED Next
    /\ pc = "done" => syms = <<<<"x">>, <<"y">>>> /\ out = ExampleOutput

\* C6 as stated: the example with the ';' after its closing brace compiles to
\* the symbol list x, y, one declaration for each, and the three groups
C6_Original == src = ExampleSource => CompilesToExample

\* C6, amended: the example without the ';' after its closing brace compiles
\* to the symbol list x, y, one declaration for each and the groups mov [x], 5;
\* mov [y], 0; add [y], [x] in that order; with that ';' the parser raises a
\* ParseError that expected '[' and nothing is written.
C6_ExampleCompiles ==
    /\ src = ExampleBody => CompilesToExample
    /\ (src = ExampleSource /\ pc \notin {"lex", "parse", "block"}) =>
          /\ pc = "error"
          /\ err.kind = "ParseError"
          /\ err.expected = <<"LBRACKET">>
          /\ err.line = 1
          /\ err.col = Len(ExampleSource)
          /\ out = <<>>

C6_Witness == src = ExampleBody /\ pc = "done" /\ Len(out) = 16

-----------------------------------------------------------------------------
(* C7: what a JUMP_IF decides on *)

JumpStmt == Flat(ast)[mark.jmp.k].st

JumpFollowsCompare ==
    /\ mark.jmp.target = Name(JumpStmt.args[2].s)
    /\ mark.jmp.taken <=> mark.jmp.cmp = "ne"

TwoArgJumpsPass ==
    \A j \in DOMAIN Flat(ast) :
        (Flat(ast)[j].st.op = OP_JUMP_IF /\ Len(Flat(ast)[j].st.args) = 2) =>
            /\ SemCheck(Flat(ast)[j].st) = "ok"
            /\ emit_stmt(Flat(ast)[j].st, 0).lines
                  = <<Ins("jne", Target(Flat(ast)[j].st.args[2]), None)>>

\* the opcodes whose instruction groups leave the flags as they are
FlagKeeping == {OP_SET, OP_NOT, OP_JUMP_IF}

\* C7 as stated: an executed JUMP_IF is taken exactly when the most recently
\* executed COMPARE found its arguments different, whatever was executed
\* between the two
C7_Original ==
    /\ TwoArgJumpsPass
    /\ (mark.jmp.k # 0 /\ mark.jmp.cmp # "none") => JumpFollowsCompare

\* C7, amended: a JUMP_IF with two arguments passes validation and its group
\* is one jne to the name given as second argument; it is taken exactly when
\* the most recently executed COMPARE found its arguments different, provided
\* that only SET, NOT and JUMP_IF statements were executed between the two.
C7_JumpFollowsCompare ==
    /\ TwoArgJumpsPass
    /\ (mark.jmp.k # 0 /\ mark.jmp.cmp # "none" /\ mark.jmp.since \subseteq FlagKeeping) =>
          JumpFollowsCompare

C7_Witness ==
    /\ mark.jmp.k = 3
    /\ OpOf(2) = OP_NOT
    /\ mark.jmp.cmp = "ne"
    /\ mark.jmp.taken
    /\ JumpStmt.dest = Sc
    /\ pc = "left"

-----------------------------------------------------------------------------
(* C8: DISPLAY and COMPARE write no cell *)

NoStore == {OP_DISPLAY, OP_COMPARE}

\* C8: a DISPLAY with one argument passes validation, and while and after the
\* group of a DISPLAY or a COMPARE is executed every cell, the destination's
\* included, holds what it held when the group was entered.
C8_NoCellWritten ==
    /\ \A j \in DOMAIN Flat(ast) :
          (Flat(ast)[j].st.op = OP_DISPLAY /\ Len(Flat(ast)[j].st.args) = 1) =>
              SemCheck(Flat(ast)[j].st) = "ok"
    /\ OpOf(mark.k) \in NoStore => cells = mark.at
    /\ OpOf(mark.pk) \in NoStore => mark.at = mark.pat

C8_Witness ==
    /\ OpOf(mark.pk) = OP_DISPLAY
    /\ Flat(ast)[mark.pk].st.dest = Sa
    /\ mark.at[Sa] = 1
    /\ mark.at[Sc] = 2
    /\ regs["rdx"] = Undef

-----------------------------------------------------------------------------
(* C10: the LOOP group *)

StepWord(cs, step) == IF step.kind = "int" THEN step.n % Modulus ELSE cs[step.s]

\* The loop of the language description, on the cells: while the counter's
\* cell is not zero, add the step to the accumulator's cell and decrement the
\* counter's cell.  Only two cells change, so a run that passes Modulus *
\* Modulus iterations never ends; it is given cells no run can end with.
RECURSIVE DescribedLoop(_, _, _, _, _)
DescribedLoop(cs, ctr, step, acc, fuel) ==
    IF cs[ctr] = 0 THEN cs
    ELSE IF fuel = 0 THEN [s \in DOMAIN cs |-> Undef]
    ELSE CHOOSE r \in
            {DescribedLoop([added EXCEPT ![ctr] = (added[ctr] + Modulus - 1) % Modulus],
                           ctr, step, acc, fuel - 1) :
                added \in {[cs EXCEPT ![acc] = (cs[acc] + StepWord(cs, step)) % Modulus]}} : TRUE

LoopArgs(k) == Flat(ast)[k].st.args

AfterDescribedLoop(k, cs) ==
    DescribedLoop(cs, LoopArgs(k)[1].s, LoopArgs(k)[2], LoopArgs(k)[3].s, Modulus * Modulus)

\* the group is left after 5 instructions for each unit of the counter and 4
\* more
LoopTerminates ==
    OpOf(mark.k) = OP_LOOP => mark.gsteps <= 5 * mark.at[LoopArgs(mark.k)[1].s] + 3

CounterApart(k) ==
    /\ LoopArgs(k)[3].s # LoopArgs(k)[1].s
    /\ LoopArgs(k)[2].kind = "str" => LoopArgs(k)[2].s # LoopArgs(k)[1].s

\* C10 as stated: for every choice of the arguments the group terminates and
\* leaves the cells as the described loop leaves them, the counter at zero
C10_Original ==
    /\ LoopTerminates
    /\ OpOf(mark.pk) = OP_LOOP =>
          /\ mark.at = AfterDescribedLoop(mark.pk, mark.pat)
          /\ mark.at[LoopArgs(mark.pk)[1].s] = 0

\* C10, amended: for every choice of the arguments the group terminates and
\* leaves the counter's cell at zero; when the counter is a symbol other than
\* the step and the accumulator it leaves the cells as the described loop
\* leaves them, so that an accumulator other than the step ends at its
\* initial value plus counter times step modulo 2^w.
C10_LoopLowering ==
    /\ LoopTerminates
    /\ OpOf(mark.pk) = OP_LOOP =>
          /\ mark.at[LoopArgs(mark.pk)[1].s] = 0
          /\ CounterApart(mark.pk) =>
                /\ mark.at = AfterDescribedLoop(mark.pk, mark.pat)
                /\ LoopArgs(mark.pk)[2] # StrArg(LoopArgs(mark.pk)[3].s) =>
                      mark.at[LoopArgs(mark.pk)[3].s]
                          = (mark.pat[LoopArgs(mark.pk)[3].s]
                                + mark.pat[LoopArgs(mark.pk)[1].s]
                                    * StepWord(mark.pat, LoopArgs(mark.pk)[2])) % Modulus

C10_Witness ==
    /\ OpOf(mark.pk) = OP_LOOP
    /\ LoopArgs(mark.pk)[2] = StrArg(Ss)
    /\ LoopArgs(mark.pk)[3].s = Sa
    /\ mark.pat[Sc] = Modulus - 1
    /\ mark.pat[Ss] = 2
    /\ mark.at[Sa] # mark.pat[Sa]
    /\ pc = "run"

-----------------------------------------------------------------------------
(* C9: what a semantic error carries *)

\* C9 as stated: every semantic error carries the opcode of the offending
\* statement and the gate that encloses it
C9_Original ==
    (pc = "error" /\ err.kind = "SemanticError") =>
        /\ "op" \in DOMAIN err
        /\ err.op = Flat(ast)[sk + 1].st.op
        /\ "gate" \in DOMAIN err
        /\ err.gate = Flat(ast)[sk + 1].gate

-----------------------------------------------------------------------------
(* C4: the lexical error *)

LexicalChars ==
    Digits \cup IdentChar \cup {"{", "}", "[", "]", ":", ";", ","}
        \cup NewlineChars \cup SkipChars

BadPositions(s) == {i \in DOMAIN s : s[i] \notin LexicalChars}

Min(S) == CHOOSE x \in S : \A y \in S : x <= y

Max(S) == CHOOSE x \in S : \A y \in S : x >= y

NewlinesBefore(s, p) == {i \in 1..(p - 1) : s[i] = "\n"}

\* 0-based offset of the first character of line ln of s
LineOffset(s, ln) ==
    IF ln = 1 THEN 0
    ELSE Min({i \in DOMAIN s : s[i] = "\n" /\ Cardinality(NewlinesBefore(s, i + 1)) = ln - 1})

TokOffset(s, t) == LineOffset(s, t.line) + t.col - 1

RECURSIVE SumLen(_)
SumLen(ts) == IF ts = <<>> THEN 0 ELSE Len(Head(ts).value) + SumLen(Tail(ts))

\* toks is exactly the text before offset e with its blanks and line breaks
\* left out: each token sits at the place its line and column name, the
\* tokens follow one another, and together they cover every other character.
TokensCover(s, ts, e) ==
    /\ \A k \in DOMAIN ts :
          /\ ts[k].line <= 1 + Cardinality(NewlinesBefore(s, e + 1))
          /\ TokOffset(s, ts[k]) + Len(ts[k].value) <= e
          /\ SubSeq(s, TokOffset(s, ts[k]) + 1, TokOffset(s, ts[k]) + Len(ts[k].value))
                = ts[k].value
          /\ k < Len(ts) => TokOffset(s, ts[k]) + Len(ts[k].value) <= TokOffset(s, ts[k + 1])
    /\ SumLen(ts) = Cardinality({i \in 1..e : s[i] \notin NewlineChars \cup SkipChars})

\* C4: a text holding a character that matches no token pattern ends in a
\* lexical error that reports the 1-based line and column of the first such
\* character; the tokens produced are exactly those before it, in order, and
\* none is produced afterwards.
C4_LexErrorPosition ==
    /\ (BadPositions(src) # {} /\ pc # "lex") =>
          (pc = "error" /\ err.kind = "SyntaxError")
    /\ (pc = "error" /\ err.kind = "SyntaxError") =>
          /\ BadPositions(src) # {}
          /\ LET p == Min(BadPositions(src))
             IN  /\ err.char = <<src[p]>>
                 /\ err.line = 1 + Cardinality(NewlinesBefore(src, p))
                 /\ err.col = p - Max({0} \cup NewlinesBefore(src, p))
                 /\ TokensCover(src, toks, p - 1)
          /\ ~ENABLED (LexNewline \/ LexSkip \/ LexMismatch \/ LexToken \/ LexEnd)

C4_Witness ==
    /\ pc = "error"
    /\ err.kind = "SyntaxError"
    /\ err.line = 3
    /\ err.col = 2
    /\ Len(toks) = 1

====
